---- MODULE Spec2Model ----
(***************************************************************************)
(* Model of blisswisdom_roll_call_assistant_sdk/attendance_sheet.py.       *)
(*                                                                         *)
(* A text (Python str) is a sequence of characters.  A character is a      *)
(* one-element token: an ASCII character stands for itself, any other      *)
(* character is written by its code point ("U+7B2C" is the character of    *)
(* the group label that precedes the digit, "U+7D44" the one after it).    *)
(* A worksheet is a sequence of rows, each a sequence of texts; a cell     *)
(* outside the stored rows is empty.                                       *)
(***************************************************************************)
EXTENDS Integers, Sequences, FiniteSets, TLC

VARIABLES
    wks,       \* the worksheet the parser or builder holds, or NoSheet
    parser,    \* the parser class in use, or "none"
    date,      \* the target of the last get_attendance_records_by_date call
    outcome,   \* how the last call ended: "none", "ok" or the exception raised
    res,       \* the list the last call returned (empty when it raised)
    pc,        \* position of AttendanceSheetParserBuilder.__init__ / build
    tmpfile,   \* TRUE while the temporary service-account file exists
    fdopen,    \* TRUE while the descriptor returned by mkstemp is open
    reads,     \* the cells fetched from the worksheet by build
    text,      \* argument of the first convert_to_name call
    names      \* the results of applying convert_to_name to text repeatedly

vars == <<wks, parser, date, outcome, res, pc, tmpfile, fdopen, reads, text, names>>

NoSheet == <<>>
NoDate == [kind |-> "none", y |-> 0, m |-> 0, d |-> 0]

(***************************************************************************)
(* Python str primitives                                                   *)
(***************************************************************************)
Whitespace == {" ", "\t", "\n", "U+3000"}

Digits == <<"0", "1", "2", "3", "4", "5", "6", "7", "8", "9">>

IsDigit(c) == \E i \in 1..Len(Digits) : Digits[i] = c

DigitVal(c) == (CHOOSE i \in 1..Len(Digits) : Digits[i] = c) - 1

Contains(t, c) == \E i \in 1..Len(t) : t[i] = c

\* str.index: the position of the first occurrence
IndexOf(t, c) == CHOOSE i \in 1..Len(t) : t[i] = c /\ \A j \in 1..(i - 1) : t[j] # c

RECURSIVE LStrip(_)
LStrip(t) == IF t # <<>> /\ Head(t) \in Whitespace THEN LStrip(Tail(t)) ELSE t

RECURSIVE RStrip(_)
RStrip(t) ==
    IF t # <<>> /\ t[Len(t)] \in Whitespace THEN RStrip(SubSeq(t, 1, Len(t) - 1)) ELSE t

Strip(t) == RStrip(LStrip(t))

StartsWith(t, p) == Len(t) >= Len(p) /\ SubSeq(t, 1, Len(p)) = p

EndsWith(t, p) == Len(t) >= Len(p) /\ SubSeq(t, Len(t) - Len(p) + 1, Len(t)) = p

UpperCase == <<"A", "B", "C", "D", "E", "F", "G", "H", "I", "J", "K", "L", "M",
               "N", "O", "P", "Q", "R", "S", "T", "U", "V", "W", "X", "Y", "Z">>

LowerCase == <<"a", "b", "c", "d", "e", "f", "g", "h", "i", "j", "k", "l", "m",
               "n", "o", "p", "q", "r", "s", "t", "u", "v", "w", "x", "y", "z">>

LowerChar(c) ==
    IF \E i \in 1..Len(UpperCase) : UpperCase[i] = c
    THEN LowerCase[CHOOSE i \in 1..Len(UpperCase) : UpperCase[i] = c]
    ELSE c

Lower(t) == [i \in 1..Len(t) |-> LowerChar(t[i])]

(***************************************************************************)
(* AttendanceSheetHelper                                                   *)
(***************************************************************************)
\* text[text.index(c) + 1:] when c occurs in text
AfterFirst(t, c) == IF Contains(t, c) THEN SubSeq(t, IndexOf(t, c) + 1, Len(t)) ELSE t

\* text[:text.index(c)] when c occurs in text
BeforeFirst(t, c) == IF Contains(t, c) THEN SubSeq(t, 1, IndexOf(t, c) - 1) ELSE t

convert_to_name(t) ==
    Strip(BeforeFirst(BeforeFirst(BeforeFirst(AfterFirst(t, "["), "]"), "("), "U+FF08"))

convert_to_group_number(t) == SelectSeq(t, IsDigit)

RECURSIVE SkipSpaces(_, _)
SkipSpaces(t, i) == IF i <= Len(t) /\ t[i] \in Whitespace THEN SkipSpaces(t, i + 1) ELSE i

\* the regular expression matches at position i: the opening character,
\* optional whitespace, one digit 1-9, optional whitespace, the closing
\* character; whatever follows is accepted by the trailing .*
GroupLabelAt(t, i) ==
    /\ t[i] = "U+7B2C"
    /\ LET j == SkipSpaces(t, i + 1) IN
         /\ j <= Len(t)
         /\ IsDigit(t[j]) /\ t[j] # "0"
         /\ LET k == SkipSpaces(t, j + 1) IN k <= Len(t) /\ t[k] = "U+7D44"

\* re.search returns the leftmost match
parse_group_number(t) ==
    IF \E i \in 1..Len(t) : GroupLabelAt(t, i)
    THEN LET i == CHOOSE i \in 1..Len(t) :
                     GroupLabelAt(t, i) /\ \A h \in 1..(i - 1) : ~GroupLabelAt(t, h)
         IN <<t[SkipSpaces(t, i + 1)]>>
    ELSE <<>>

(***************************************************************************)
(* datetime: a value is a record whose kind tells a datetime.date from a   *)
(* datetime.datetime (here always at 00:00:00, which is what strptime      *)
(* yields for formats without a time directive).                           *)
(***************************************************************************)
MkDate(y, m, d) == [kind |-> "date", y |-> y, m |-> m, d |-> d]

MkDateTime(y, m, d) == [kind |-> "datetime", y |-> y, m |-> m, d |-> d]

\* datetime.datetime.date()
DateOf(dt) == MkDate(dt.y, dt.m, dt.d)

\* == between date and datetime objects: a datetime never equals a plain
\* date, two values of one kind are equal when their fields are
PyEq(a, b) == a.kind = b.kind /\ a.y = b.y /\ a.m = b.m /\ a.d = b.d

IsLeap(y) == (y % 4 = 0 /\ y % 100 # 0) \/ y % 400 = 0

DaysInMonth(y, m) ==
    IF m = 2 THEN (IF IsLeap(y) THEN 29 ELSE 28)
    ELSE IF m \in {4, 6, 9, 11} THEN 30 ELSE 31

AllDigits(f) == \A i \in 1..Len(f) : IsDigit(f[i])

RECURSIVE NumVal(_)
NumVal(f) ==
    IF f = <<>> THEN 0
    ELSE IF IsDigit(f[Len(f)])
         THEN 10 * NumVal(SubSeq(f, 1, Len(f) - 1)) + DigitVal(f[Len(f)])
         ELSE NumVal(SubSeq(f, 1, Len(f) - 1))

\* the regular expressions strptime uses for %Y, %m and %d
MatchesY(f) == Len(f) = 4 /\ AllDigits(f)

MatchesM(f) ==
    \/ Len(f) = 2 /\ f[1] = "1" /\ f[2] \in {"0", "1", "2"}
    \/ Len(f) = 2 /\ f[1] = "0" /\ IsDigit(f[2]) /\ f[2] # "0"
    \/ Len(f) = 1 /\ IsDigit(f[1]) /\ f[1] # "0"

MatchesD(f) ==
    \/ Len(f) = 2 /\ f[1] = "3" /\ f[2] \in {"0", "1"}
    \/ Len(f) = 2 /\ f[1] \in {"1", "2"} /\ IsDigit(f[2])
    \/ Len(f) = 2 /\ f[1] \in {"0", " "} /\ IsDigit(f[2]) /\ f[2] # "0"
    \/ Len(f) = 1 /\ IsDigit(f[1]) /\ f[1] # "0"

Slashes(t) == {i \in 1..Len(t) : t[i] = "/"}

\* the three fields of a text holding exactly two "/"
Field(t, k) ==
    LET p1 == CHOOSE i \in Slashes(t) : \A j \in Slashes(t) : i <= j
        p2 == CHOOSE i \in Slashes(t) : \A j \in Slashes(t) : j <= i
    IN  IF k = 1 THEN SubSeq(t, 1, p1 - 1)
        ELSE IF k = 2 THEN SubSeq(t, p1 + 1, p2 - 1)
        ELSE SubSeq(t, p2 + 1, Len(t))

ValueError == [ok |-> FALSE, val |-> NoDate]

\* datetime.datetime.strptime(t, fmt) for the two formats of this module,
\* fmt = "%Y/%m/%d" or "%m/%d/%Y": the whole text must match and the day
\* must exist in the month, otherwise ValueError
Strptime(t, fmt) ==
    IF Cardinality(Slashes(t)) # 2 THEN ValueError
    ELSE LET fy == IF fmt = "%Y/%m/%d" THEN Field(t, 1) ELSE Field(t, 3)
             fm == IF fmt = "%Y/%m/%d" THEN Field(t, 2) ELSE Field(t, 1)
             fd == IF fmt = "%Y/%m/%d" THEN Field(t, 3) ELSE Field(t, 2)
         IN  IF ~(MatchesY(fy) /\ MatchesM(fm) /\ MatchesD(fd)) THEN ValueError
             ELSE IF NumVal(fy) < 1 \/ NumVal(fd) > DaysInMonth(NumVal(fy), NumVal(fm))
                  THEN ValueError
                  ELSE [ok |-> TRUE, val |-> MkDateTime(NumVal(fy), NumVal(fm), NumVal(fd))]

convert_to_date(t) ==
    LET a == Strptime(Strip(t), "%Y/%m/%d")
        b == Strptime(Strip(t), "%m/%d/%Y")
    IN  IF a.ok THEN [ok |-> TRUE, val |-> DateOf(a.val)]
        ELSE IF b.ok THEN [ok |-> TRUE, val |-> DateOf(b.val)]
        ELSE ValueError

(***************************************************************************)
(* AttendanceState                                                         *)
(***************************************************************************)
IN_PERSON == <<"U+73FE", "U+5834">>

ONLINE == <<"U+7DDA", "U+4E0A">>

LEAVE == <<"U+8ACB", "U+5047">>

ABSENT == <<"U+672A", "U+51FA", "U+5E2D">>

StateLabels == {IN_PERSON, ONLINE, LEAVE, ABSENT}

\* AttendanceState(value) raises ValueError unless value is a member's label
AttendanceState(value) ==
    IF value \in StateLabels THEN [ok |-> TRUE, state |-> value]
    ELSE [ok |-> FALSE, state |-> <<>>]

\* variant: a label that is no member of the enumeration counts as ABSENT
StateOfCell_DefaultAbsent(value) ==
    IF value \in StateLabels THEN [ok |-> TRUE, state |-> value]
    ELSE [ok |-> TRUE, state |-> ABSENT]

\* AttendanceState(c.value) if c.value else AttendanceState.ABSENT
StateOfCell(value) == IF value # <<>> THEN AttendanceState(value) ELSE [ok |-> TRUE, state |-> ABSENT]

AttendanceRecord(name, state, group_number, d) ==
    [name |-> name, state |-> state, group_number |-> group_number, date |-> d]

(***************************************************************************)
(* Worksheet reads (pygsheets.Worksheet as this module uses it)            *)
(***************************************************************************)
NumRows(w) == Len(w)

NumCols(w) == IF w = <<>> THEN 0 ELSE Len(w[1])

\* wks.cell((r, c)).value; value_unformatted of a text cell is the same text
CellValue(w, r, c) == IF r \in 1..Len(w) /\ c \in 1..Len(w[r]) THEN w[r][c] ELSE <<>>

MkCell(w, r, c) == [row |-> r, col |-> c, value |-> CellValue(w, r, c)]

Max0(S) == IF S = {} THEN 0 ELSE CHOOSE x \in S : \A y \in S : y <= x

Min2(a, b) == IF a <= b THEN a ELSE b

\* get_row(r, returnas='cell', include_tailing_empty=False): the cells of
\* row r up to its last non-empty cell
get_row(w, r) ==
    LET n == Max0({c \in 1..NumCols(w) : CellValue(w, r, c) # <<>>})
    IN  [c \in 1..n |-> MkCell(w, r, c)]

\* get_col(c, returnas='cell', include_tailing_empty=False): the cells of
\* column c up to its last non-empty cell
get_col(w, c) ==
    LET n == Max0({r \in 1..NumRows(w) : CellValue(w, r, c) # <<>>})
    IN  [r \in 1..n |-> MkCell(w, r, c)]

\* the slice s[1:]
Drop1(s) == SubSeq(s, 2, Len(s))

(***************************************************************************)
(* AttendanceSheetParser (the roster layout: names in column 1, one        *)
(* column per class date)                                                  *)
(***************************************************************************)
\* c.value parses as %m/%d/%Y and the datetime obtained == date
HeaderMatches(c, d) ==
    LET p == Strptime(c.value, "%m/%d/%Y") IN p.ok /\ PyEq(p.val, d)

\* the for/else over row 1: the column of the first matching cell, or 0
\* when the loop ends without break (NoRelevantRowError)
status_row_index(w, d) ==
    LET header == get_row(w, 1)
        hits == {i \in 1..Len(header) : HeaderMatches(header[i], d)}
    IN  IF hits = {} THEN 0
        ELSE header[CHOOSE i \in hits : \A j \in hits : i <= j].col

\* variant: the group-label branch lacks its continue, so a label row also
\* appends a record
RECURSIVE RosterScan_NoContinue(_, _, _, _, _, _)
RosterScan_NoContinue(names_row, state_row, i, group_number, acc, d) ==
    IF i > Min2(Len(names_row), Len(state_row)) THEN [exc |-> "none", res |-> acc]
    ELSE LET n == names_row[i].value
             s == state_row[i].value
             g_num == parse_group_number(n)
             g == IF g_num # <<>> THEN g_num ELSE group_number
         IN  IF n = <<>> THEN RosterScan_NoContinue(names_row, state_row, i + 1, group_number, acc, d)
             ELSE IF ~StateOfCell(s).ok THEN [exc |-> "ValueError", res |-> <<>>]
             ELSE RosterScan_NoContinue(names_row, state_row, i + 1, g,
                             Append(acc, AttendanceRecord(convert_to_name(n),
                                         StateOfCell(s).state, g, d)), d)

\* the loop over zip(names_row[1:], state_row[1:]) from its i-th pair on,
\* with the running group_number and the records appended so far
RECURSIVE RosterScan(_, _, _, _, _, _)
RosterScan(names_row, state_row, i, group_number, acc, d) ==
    IF i > Min2(Len(names_row), Len(state_row)) THEN [exc |-> "none", res |-> acc]
    ELSE LET n == names_row[i].value
             s == state_row[i].value
             g_num == parse_group_number(n)
         IN  IF n = <<>> THEN RosterScan(names_row, state_row, i + 1, group_number, acc, d)
             ELSE IF g_num # <<>> THEN RosterScan(names_row, state_row, i + 1, g_num, acc, d)
             ELSE IF ~StateOfCell(s).ok THEN [exc |-> "ValueError", res |-> <<>>]
             ELSE RosterScan(names_row, state_row, i + 1, group_number,
                             Append(acc, AttendanceRecord(convert_to_name(n),
                                         StateOfCell(s).state, group_number, d)), d)

AttendanceSheetParser_get_attendance_records_by_date(w, d) ==
    IF status_row_index(w, d) = 0 THEN [exc |-> "NoRelevantRowError", res |-> <<>>]
    ELSE RosterScan(Drop1(get_col(w, 1)), Drop1(get_col(w, status_row_index(w, d))),
                    1, <<>>, <<>>, d)

(***************************************************************************)
(* AttendanceFormReportSheetParser (the form log layout: one row per       *)
(* submission, its date in column 2, its group in column 3)                *)
(***************************************************************************)
\* variant: the first matching row is kept instead of the last
RECURSIVE ClassDateScan_FirstMatch(_, _, _, _)
ClassDateScan_FirstMatch(cells, i, last_relevant_row_index, d) ==
    IF i > Len(cells) THEN [exc |-> "none", index |-> last_relevant_row_index]
    ELSE LET p == convert_to_date(cells[i].value) IN
         IF ~p.ok THEN [exc |-> "ValueError", index |-> 0]
         ELSE IF ~PyEq(p.val, d) \/ last_relevant_row_index # 0
              THEN ClassDateScan_FirstMatch(cells, i + 1, last_relevant_row_index, d)
         ELSE ClassDateScan_FirstMatch(cells, i + 1, i + 1, d)

\* the loop of get_class_date_index over the cells of column 2 below row 1,
\* from the i-th cell on; cells[i] is the cell of row i + 1
RECURSIVE ClassDateScan(_, _, _, _)
ClassDateScan(cells, i, last_relevant_row_index, d) ==
    IF i > Len(cells) THEN [exc |-> "none", index |-> last_relevant_row_index]
    ELSE LET p == convert_to_date(cells[i].value) IN
         IF ~p.ok THEN [exc |-> "ValueError", index |-> 0]
         ELSE IF ~PyEq(p.val, d) THEN ClassDateScan(cells, i + 1, last_relevant_row_index, d)
         ELSE ClassDateScan(cells, i + 1, i + 1, d)

\* variant: the check that raises NoRelevantRowError is missing
get_class_date_index_NoRaise(w, d) == ClassDateScan(Drop1(get_col(w, 2)), 1, 0, d)

get_class_date_index(w, d) ==
    LET r == ClassDateScan(Drop1(get_col(w, 2)), 1, 0, d) IN
    IF r.exc = "none" /\ r.index = 0 THEN [exc |-> "NoRelevantRowError", index |-> 0] ELSE r

get_group_number(w, row_index) == convert_to_group_number(CellValue(w, row_index, 3))

RecordPrefix == <<"U+51FA", "U+5E2D", "U+8A18", "U+9304", " ", "[">>

\* the loop over zip(title_row, data_row) from its i-th pair on
RECURSIVE FormScan(_, _, _, _, _, _)
FormScan(title_row, data_row, i, group_number, acc, d) ==
    IF i > Min2(Len(title_row), Len(data_row)) THEN [exc |-> "none", res |-> acc]
    ELSE IF ~StartsWith(title_row[i].value, RecordPrefix)
         THEN FormScan(title_row, data_row, i + 1, group_number, acc, d)
    ELSE IF ~StateOfCell(data_row[i].value).ok THEN [exc |-> "ValueError", res |-> <<>>]
    ELSE FormScan(title_row, data_row, i + 1, group_number,
                  Append(acc, AttendanceRecord(convert_to_name(title_row[i].value),
                              StateOfCell(data_row[i].value).state, group_number, d)), d)

AttendanceFormReportSheetParser_get_attendance_records_by_date(w, d) ==
    LET idx == get_class_date_index(w, d) IN
    IF idx.exc # "none" THEN [exc |-> idx.exc, res |-> <<>>]
    ELSE FormScan(get_row(w, 1), get_row(w, idx.index), 1,
                  get_group_number(w, idx.index), <<>>, d)

(***************************************************************************)
(* AttendanceSheetParserBuilder.build                                      *)
(***************************************************************************)
Timestamp == <<"T", "i", "m", "e", "s", "t", "a", "m", "p">>

TimestampZh == <<"U+6642", "U+9593", "U+6233", "U+8A18">>

MorningPrefix == <<"U+4E0A", "U+5348", " ">>

AfternoonPrefix == <<"U+4E0B", "U+5348", " ">>

\* variant: the suffix test is made on the text as it is, not lower-cased
IsRosterHeader_CaseSensitive(first_cell_value) ==
    \/ EndsWith(first_cell_value, <<" ", "a", "m">>)
    \/ EndsWith(first_cell_value, <<" ", "p", "m">>)
    \/ StartsWith(first_cell_value, MorningPrefix)
    \/ StartsWith(first_cell_value, AfternoonPrefix)

IsRosterHeader(first_cell_value) ==
    \/ EndsWith(Lower(first_cell_value), <<" ", "a", "m">>)
    \/ EndsWith(Lower(first_cell_value), <<" ", "p", "m">>)
    \/ StartsWith(first_cell_value, MorningPrefix)
    \/ StartsWith(first_cell_value, AfternoonPrefix)

IsFormHeader(first_cell_value) == first_cell_value \in {Timestamp, TimestampZh}

\* the class build returns for the text of cell (1, 1), or the error raised
build(first_cell_value) ==
    IF IsRosterHeader(first_cell_value) THEN "AttendanceSheetParser"
    ELSE IF IsFormHeader(first_cell_value) THEN "AttendanceFormReportSheetParser"
    ELSE "UnsupportedSheetError"

(***************************************************************************)
(* Inputs: the texts and worksheets the operations are run on              *)
(***************************************************************************)
MaxRows == 3

MaxFormRows == 2

MaxTextLen == 3

MaxApplications == 2

Empty == <<>>

\* "03/15/2024", "3/22/2024", "2024/03/15", "2024/03/22" and a text that is no date
Mar15_mdY == <<"0", "3", "/", "1", "5", "/", "2", "0", "2", "4">>

Mar22_mdY == <<"3", "/", "2", "2", "/", "2", "0", "2", "4">>

Mar15_Ymd == <<"2", "0", "2", "4", "/", "0", "3", "/", "1", "5">>

Mar22_Ymd == <<"2", "0", "2", "4", "/", "0", "3", "/", "2", "2">>

NotADate == <<"a", "b", "c">>

NineAM == <<"9", ":", "0", "0", " ", "A", "M">>

\* member names and group labels of the roster's name column
Wang == <<"U+738B", "U+5C0F", "U+660E">>

WangOnline == <<"U+738B", "U+5C0F", "U+660E", "(", "U+7DDA", "U+4E0A", ")">>

Group1 == <<"U+7B2C", "1", "U+7D44">>

Group2Named == <<"U+7B2C", " ", "2", " ", "U+7D44", "U+6E05", "U+6DBC">>

BadStatus == <<"x">>

\* the titles of the form log
DateTitle == <<"U+4E0A", "U+8AB2", "U+65E5", "U+671F">>

GroupTitle == <<"U+7D44", "U+5225">>

NoteTitle == <<"U+5099", "U+8A3B">>

TitleWang == RecordPrefix \o Wang \o <<"]">>

TitleWang2 == RecordPrefix \o Wang \o <<"(", "2", ")", "]">>

TitleLi == RecordPrefix \o <<"U+674E", "U+5C0F", "U+83EF", "]">>

Group3 == <<"U+7B2C", "3", "U+7D44">>

Group5 == <<"5">>

\* the targets: 2024-03-15 as a datetime.date and as a datetime.datetime
Targets == {MkDate(2024, 3, 15), MkDateTime(2024, 3, 15)}

RosterHeaders ==
    { <<NineAM, Mar15_mdY, Mar22_mdY>>, <<NineAM, Mar15_mdY, Mar15_mdY>>,
      <<NineAM, NotADate, Mar15_mdY>>, <<NineAM, Mar22_mdY, Empty>> }

\* a roster row: the name, the status of column 2, the status of column 3
RosterRows ==
    {<<n, s, ONLINE>> : n \in {Empty, WangOnline}, s \in {Empty, IN_PERSON}}
    \cup {<<Group1, s, ONLINE>> : s \in {Empty, BadStatus}}
    \cup {<<Group2Named, Empty, ONLINE>>}
    \cup {<<Wang, s, ONLINE>> : s \in {Empty, IN_PERSON, BadStatus}}

RosterSheets ==
    {<<h>> \o rows : h \in RosterHeaders, rows \in [1..MaxRows -> RosterRows]}

FormTitles ==
    { <<Timestamp, DateTitle, GroupTitle, TitleWang, TitleLi>>,
      <<Timestamp, DateTitle, GroupTitle, TitleWang, TitleWang2>>,
      <<Timestamp, DateTitle, GroupTitle, NoteTitle, TitleLi>>,
      <<Timestamp, DateTitle, GroupTitle, TitleWang, Empty>> }

FormDates == {Mar15_Ymd, Mar15_mdY, Mar22_Ymd, Empty}

\* a submission row: timestamp, date, then group and two status cells
FormRows ==
    {<<NineAM, dt, g[1], g[2], g[3]>> :
        dt \in FormDates,
        g \in {<<Group3, IN_PERSON, LEAVE>>, <<Group5, Empty, LEAVE>>,
               <<Group5, IN_PERSON, Empty>>, <<Group3, BadStatus, LEAVE>>,
               <<Group5, Empty, Empty>>}}

FormSheets ==
    {<<h>> \o rows : h \in FormTitles, rows \in [1..MaxFormRows -> FormRows]}

(***************************************************************************)
(* The parsers: one call of get_attendance_records_by_date per step        *)
(***************************************************************************)
BuilderIdle == pc = "idle" /\ tmpfile = FALSE /\ fdopen = FALSE /\ reads = {}

NameIdle == text = Empty /\ names = <<>>

InitRoster ==
    /\ wks \in RosterSheets
    /\ parser = "AttendanceSheetParser"

InitForm ==
    /\ wks \in FormSheets
    /\ parser = "AttendanceFormReportSheetParser"

Init ==
    /\ InitRoster \/ InitForm
    /\ date = NoDate /\ outcome = "none" /\ res = <<>>
    /\ BuilderIdle /\ NameIdle

Return(r) ==
    /\ outcome' = (IF r.exc = "none" THEN "ok" ELSE r.exc)
    /\ res' = r.res

RosterGetRecords ==
    /\ parser = "AttendanceSheetParser" /\ outcome = "none"
    /\ \E d \in Targets :
         /\ date' = d
         /\ Return(AttendanceSheetParser_get_attendance_records_by_date(wks, d))
    /\ UNCHANGED <<wks, parser, pc, tmpfile, fdopen, reads, text, names>>

FormGetRecords ==
    /\ parser = "AttendanceFormReportSheetParser" /\ outcome = "none"
    /\ \E d \in Targets :
         /\ date' = d
         /\ Return(AttendanceFormReportSheetParser_get_attendance_records_by_date(wks, d))
    /\ UNCHANGED <<wks, parser, pc, tmpfile, fdopen, reads, text, names>>

Next == RosterGetRecords \/ FormGetRecords

Spec == Init /\ [][Next]_vars

(***************************************************************************)
(* AttendanceSheetParserBuilder: __init__ statement by statement, each     *)
(* external call either returning or raising, then build                   *)
(***************************************************************************)
DetectorTexts ==
    { NineAM, <<"3", ":", "1", "5", " ", "p", "m">>, <<"9", ":", "0", "0", " ", "A", "m">>,
      <<"9", ":", "0", "0", "A", "M">>, <<" ", "a", "m">>, <<"a", "m">>, <<" ", "P", "M">>,
      <<"A", "M", " ">>, MorningPrefix \o <<"9", ":", "0", "0">>, AfternoonPrefix \o <<"3">>,
      <<"U+4E0A", "U+5348", "9">>, <<" ">> \o MorningPrefix, Timestamp,
      <<"t", "i", "m", "e", "s", "t", "a", "m", "p">>, Timestamp \o <<" ">>,
      Timestamp \o <<" ", "p", "m">>, TimestampZh, TimestampZh \o <<" ", "P", "M">>,
      <<"N", "a", "m", "e">>, Empty, Mar15_mdY }

\* the remote grids: a first cell and a second cell beside it
BuilderSheets == {<< <<t, u>> >> : t \in DetectorTexts, u \in {Empty, Timestamp, NineAM}}

InitBuilder ==
    /\ pc = "mkstemp" /\ tmpfile = FALSE /\ fdopen = FALSE /\ reads = {}
    /\ wks = NoSheet /\ parser = "none"
    /\ date = NoDate /\ outcome = "none" /\ res = <<>>
    /\ NameIdle

Mkstemp ==
    /\ pc = "mkstemp"
    /\ \/ tmpfile' = TRUE /\ fdopen' = TRUE /\ pc' = "write"
       \/ pc' = "raised" /\ UNCHANGED <<tmpfile, fdopen>>
    /\ UNCHANGED <<wks, parser, date, outcome, res, reads, text, names>>

OsWrite ==
    /\ pc = "write"
    /\ pc' \in {"close", "raised"}
    /\ UNCHANGED <<wks, parser, date, outcome, res, tmpfile, fdopen, reads, text, names>>

OsClose ==
    /\ pc = "close"
    /\ fdopen' = FALSE /\ pc' = "authorize"
    /\ UNCHANGED <<wks, parser, date, outcome, res, tmpfile, reads, text, names>>

Authorize ==
    /\ pc = "authorize"
    /\ pc' \in {"open_by_url", "raised"}
    /\ UNCHANGED <<wks, parser, date, outcome, res, tmpfile, fdopen, reads, text, names>>

OpenByUrl ==
    /\ pc = "open_by_url"
    /\ \/ wks' \in BuilderSheets /\ pc' = "remove"
       \/ pc' = "raised" /\ UNCHANGED wks
    /\ UNCHANGED <<parser, date, outcome, res, tmpfile, fdopen, reads, text, names>>

OsRemove ==
    /\ pc = "remove"
    /\ tmpfile' = FALSE /\ pc' = "constructed"
    /\ UNCHANGED <<wks, parser, date, outcome, res, fdopen, reads, text, names>>

Build ==
    /\ pc = "constructed"
    /\ reads' = reads \cup {<<1, 1>>}
    /\ LET b == build(CellValue(wks, 1, 1)) IN
         IF b = "UnsupportedSheetError"
         THEN outcome' = b /\ UNCHANGED parser
         ELSE outcome' = "ok" /\ parser' = b
    /\ pc' = "built"
    /\ UNCHANGED <<wks, date, res, tmpfile, fdopen, text, names>>

NextBuilder == Mkstemp \/ OsWrite \/ OsClose \/ Authorize \/ OpenByUrl \/ OsRemove \/ Build

SpecBuilder == InitBuilder /\ [][NextBuilder]_vars

(***************************************************************************)
(* convert_to_name applied to a text and again to its own result           *)
(***************************************************************************)
NameAlphabet == {"[", "]", "(", "U+FF08", " ", "a"}

NameTexts == UNION {[1..n -> NameAlphabet] : n \in 0..MaxTextLen}

InitName ==
    /\ text \in NameTexts /\ names = <<>>
    /\ wks = NoSheet /\ parser = "none"
    /\ date = NoDate /\ outcome = "none" /\ res = <<>>
    /\ BuilderIdle

ConvertToName ==
    /\ Len(names) < MaxApplications
    /\ names' = Append(names, convert_to_name(IF names = <<>> THEN text ELSE names[Len(names)]))
    /\ UNCHANGED <<wks, parser, date, outcome, res, pc, tmpfile, fdopen, reads, text>>

NextName == ConvertToName

SpecName == InitName /\ [][NextName]_vars

(***************************************************************************)
(* Properties.  The vocabulary below restates what the claims speak of     *)
(* directly on the worksheet, without the parsers' own scans.              *)
(***************************************************************************)
RosterCalled == parser = "AttendanceSheetParser" /\ pc = "idle" /\ outcome # "none"

FormCalled == parser = "AttendanceFormReportSheetParser" /\ pc = "idle" /\ outcome # "none"

\* the same calendar day, whatever the kinds of the two values
SameDay(a, b) == a.y = b.y /\ a.m = b.m /\ a.d = b.d

\* the elements of a set of integers in increasing order
RECURSIVE Ascending(_)
Ascending(S) ==
    IF S = {} THEN <<>>
    ELSE LET lo == CHOOSE x \in S : \A y \in S : x <= y IN <<lo>> \o Ascending(S \ {lo})

\* the columns whose row-1 text reads as MM/DD/YYYY of the target's day
HeaderColumnsOfTarget ==
    {c \in 1..NumCols(wks) :
        LET p == Strptime(CellValue(wks, 1, c), "%m/%d/%Y") IN p.ok /\ SameDay(p.val, date)}

\* the text reads as a date in one of the two formats / as the target's day
ReadsAsDate(t) == Strptime(Strip(t), "%Y/%m/%d").ok \/ Strptime(Strip(t), "%m/%d/%Y").ok

ReadsAsTarget(t) ==
    \E fmt \in {"%Y/%m/%d", "%m/%d/%Y"} :
        Strptime(Strip(t), fmt).ok /\ SameDay(Strptime(Strip(t), fmt).val, date)

\* the submission rows of the target's day, and the one that counts
SubmissionRowsOfTarget == {r \in 2..NumRows(wks) : ReadsAsTarget(CellValue(wks, r, 2))}

WinningRow == Max0(SubmissionRowsOfTarget)

\* the member columns of the form log, left to right
MemberColumns == Ascending({c \in 1..NumCols(wks) : StartsWith(CellValue(wks, 1, c), RecordPrefix)})

\* the roster's status column once a call succeeded, its member rows top
\* down, and the label row that governs a row
StatusColumn ==
    IF HeaderColumnsOfTarget = {} THEN 0
    ELSE CHOOSE c \in HeaderColumnsOfTarget : \A b \in HeaderColumnsOfTarget : c <= b

IsLabelRow(r) == parse_group_number(CellValue(wks, r, 1)) # <<>>

IsMemberRow(r) == CellValue(wks, r, 1) # <<>> /\ ~IsLabelRow(r)

MemberRows == Ascending({r \in 2..NumRows(wks) : IsMemberRow(r)})

GroupAbove(r) ==
    LET above == {q \in 2..(r - 1) : IsLabelRow(q)} IN
    IF above = {} THEN <<>> ELSE parse_group_number(CellValue(wks, Max0(above), 1))

StateRead(t) == IF t = <<>> THEN ABSENT ELSE t

IsMalformed(t) == t # <<>> /\ t \notin {IN_PERSON, ONLINE, LEAVE, ABSENT}

\* C1: the roster call fails with NoRelevantRowError exactly when no cell
\* of row 1 reads as MM/DD/YYYY of the target date.  Refuted: for a target
\* that is a datetime.date the comparison with the parsed datetime is
\* never true and the call always ends in NoRelevantRowError.
C1_NotFoundExactlyWhenNoHeaderMatches ==
    RosterCalled => ((outcome = "NoRelevantRowError") <=> (HeaderColumnsOfTarget = {}))

\* C2: in the form log every returned record takes its state from the
\* highest row whose column-2 date is the target, and its group number is
\* the digits of column 3 of that row; the i-th record belongs to the i-th
\* member column.
C2_LastSubmissionWins ==
    (FormCalled /\ outcome = "ok") =>
        LET row == WinningRow
            cols == MemberColumns
        IN  /\ row >= 2
            /\ Len(res) <= Len(cols)
            /\ \A i \in 1..Len(res) :
                 /\ res[i].state = StateRead(CellValue(wks, row, cols[i]))
                 /\ res[i].group_number = SelectSeq(CellValue(wks, row, 3), IsDigit)

\* two submissions of the target day with different groups and different
\* statuses, and the call returned records
C2_Witness ==
    /\ FormCalled /\ outcome = "ok" /\ res # <<>>
    /\ SubmissionRowsOfTarget = {2, 3}
    /\ CellValue(wks, 2, 3) # CellValue(wks, 3, 3)
    /\ CellValue(wks, 2, 4) # CellValue(wks, 3, 4)
    /\ CellValue(wks, 2, 5) # CellValue(wks, 3, 5)

\* C3: in a successful extraction every member whose status cell for the
\* target is empty has a record with state ABSENT.  Refuted: a member
\* whose empty status cell lies after the last non-empty cell of the status
\* column (roster) or of the winning row (form log) gets no record at all.
C3_BlankStatusYieldsAbsent ==
    /\ (RosterCalled /\ outcome = "ok") =>
          \A r \in 2..NumRows(wks) :
              (IsMemberRow(r) /\ CellValue(wks, r, StatusColumn) = <<>>) =>
                  \E i \in 1..Len(res) :
                      /\ res[i].name = convert_to_name(CellValue(wks, r, 1))
                      /\ res[i].state = ABSENT
    /\ (FormCalled /\ outcome = "ok") =>
          \A k \in 1..Len(MemberColumns) :
              CellValue(wks, WinningRow, MemberColumns[k]) = <<>> =>
                  \E i \in 1..Len(res) :
                      /\ res[i].name = convert_to_name(CellValue(wks, 1, MemberColumns[k]))
                      /\ res[i].state = ABSENT

\* C4: build decides on the text of cell (1, 1) alone: the roster parser
\* when the lower-cased text ends with " am" or " pm" or the text starts
\* with one of the two day-half markers, else the form parser when the text
\* is exactly one of the two timestamp titles, else UnsupportedSheetError;
\* no other cell is read.
C4_DetectorDecidesOnFirstCell ==
    pc = "built" =>
        LET v == CellValue(wks, 1, 1)
            roster == \/ EndsWith(Lower(v), <<" ", "a", "m">>)
                      \/ EndsWith(Lower(v), <<" ", "p", "m">>)
                      \/ StartsWith(v, <<"U+4E0A", "U+5348", " ">>)
                      \/ StartsWith(v, <<"U+4E0B", "U+5348", " ">>)
            form == \/ v = <<"T", "i", "m", "e", "s", "t", "a", "m", "p">>
                    \/ v = <<"U+6642", "U+9593", "U+6233", "U+8A18">>
        IN  /\ roster => (parser = "AttendanceSheetParser" /\ outcome = "ok")
            /\ (~roster /\ form) => (parser = "AttendanceFormReportSheetParser" /\ outcome = "ok")
            /\ (~roster /\ ~form) => (parser = "none" /\ outcome = "UnsupportedSheetError")
            /\ reads = {<<1, 1>>}

\* an upper-case "9:00 AM" selected the roster parser while the cell
\* beside it holds a timestamp title
C4_Witness ==
    /\ pc = "built" /\ parser = "AttendanceSheetParser"
    /\ CellValue(wks, 1, 1) = NineAM /\ CellValue(wks, 1, 2) = Timestamp

\* C5: convert_to_name applied to its own result changes nothing.
\* Refuted: only the first "[" is consumed by one application, so a text
\* with two of them loses another prefix the second time.
C5_ConvertToNameIdempotent == Len(names) >= 2 => names[2] = names[1]

\* C6 as stated: the form-log call ends in NoRelevantRowError whenever no
\* cell of column 2 below row 1 holds the target date, whatever else the
\* column holds, and never when one does.  Refuted: a cell of the column
\* that is no date ends the call with ValueError.
C6_NotFoundWhateverTheColumnHolds ==
    (FormCalled /\ date.kind = "date") =>
        /\ SubmissionRowsOfTarget = {} => (outcome = "NoRelevantRowError" /\ res = <<>>)
        /\ SubmissionRowsOfTarget # {} => outcome # "NoRelevantRowError"

\* the rows of column 2 the scan visits: from row 2 to the last non-empty
\* cell of the column
DateRows == 2..Max0({r \in 1..NumRows(wks) : CellValue(wks, r, 2) # <<>>})

AllDateRowsRead == \A r \in DateRows : ReadsAsDate(CellValue(wks, r, 2))

\* C6 amended: for a target that is a datetime.date, if every cell of
\* column 2 from row 2 to the column's last non-empty cell reads as a date,
\* the call ends in NoRelevantRowError exactly when none of them is the
\* target date; if one of them does not read as a date the call ends in
\* ValueError; a failed call returns no records.
C6_NotFoundWhenAllDatesRead ==
    (FormCalled /\ date.kind = "date") =>
        LET allRead == AllDateRowsRead IN
        /\ allRead => ((outcome = "NoRelevantRowError") <=> (SubmissionRowsOfTarget = {}))
        /\ ~allRead => outcome = "ValueError"
        /\ outcome # "ok" => res = <<>>

\* every visited date cell reads as a date of another day, in rows 2 and 3
C6_Witness ==
    /\ FormCalled /\ date.kind = "date" /\ outcome = "NoRelevantRowError"
    /\ DateRows = {2, 3} /\ AllDateRowsRead

\* C7: one result never holds two records of the same name.  Refuted: the
\* scans append one record per member cell and never look at what was
\* appended before.
C7_NoDuplicateNames ==
    outcome = "ok" => \A i, j \in 1..Len(res) : i # j => res[i].name # res[j].name

\* C8: the roster's records are its member rows in increasing row order,
\* label rows emit nothing, and each record carries the digit of the
\* nearest label row above its row, or the empty text.
C8_GroupOfNearestLabelAbove ==
    (RosterCalled /\ outcome = "ok") =>
        LET rows == MemberRows IN
        /\ Len(res) <= Len(rows)
        /\ \A i \in 1..Len(res) :
             /\ res[i].name = convert_to_name(CellValue(wks, rows[i], 1))
             /\ res[i].group_number = GroupAbove(rows[i])

\* a member before any label, then a label, then a member tagged with it
C8_Witness ==
    /\ RosterCalled /\ outcome = "ok" /\ Len(res) = 2
    /\ IsMemberRow(2) /\ IsLabelRow(3) /\ IsMemberRow(4)
    /\ res[1].group_number = <<>> /\ res[2].group_number = <<"1">>

\* a status cell of a member for the target that is neither empty nor one
\* of the four labels
MalformedMemberStatus ==
    \/ /\ parser = "AttendanceSheetParser"
       /\ LET col == StatusColumn IN
            /\ col # 0
            /\ \E r \in 2..NumRows(wks) : IsMalformed(CellValue(wks, r, col)) /\ IsMemberRow(r)
    \/ /\ parser = "AttendanceFormReportSheetParser"
       /\ LET row == WinningRow IN
            /\ row # 0
            /\ \E c \in 1..NumCols(wks) :
                  /\ IsMalformed(CellValue(wks, row, c))
                  /\ StartsWith(CellValue(wks, 1, c), RecordPrefix)

\* C9: a call that fails hands no records to the caller, and a call never
\* succeeds when a member's status for the target is malformed: it fails
\* instead of defaulting that member to ABSENT.
C9_MalformedStatusFailsWhole ==
    (pc = "idle" /\ outcome # "none") =>
        /\ outcome # "ok" => res = <<>>
        /\ outcome = "ok" => ~MalformedMemberStatus

\* the roster scan had appended a record for row 2 when row 3 failed
C9_Witness ==
    /\ RosterCalled /\ outcome = "ValueError" /\ res = <<>>
    /\ wks[2] = <<Wang, IN_PERSON, ONLINE>> /\ wks[3] = <<Wang, BadStatus, ONLINE>>

\* C10: once __init__ has returned or raised, the temporary file is gone.
\* Refuted: os.remove is reached only when every statement before it
\* returned; a raise in os.write, authorize or open_by_url leaves the file.
C10_NoTemporaryFileAfterInit == pc \in {"constructed", "raised", "built"} => tmpfile = FALSE

====
